---- MODULE Spec2Model ----
(***************************************************************************)
(* hotqpOASESSolverWrapper (toppra/solverwrapper/hot_qpoases_solverwrapper) *)
(* and its base class SolverWrapper, as a state machine.                   *)
(*                                                                         *)
(* The wrapper keeps five coefficient buffers (_A, _lA, _hA, _l, _h), two  *)
(* qpOASES sessions and two "recent index" counters.  One action models    *)
(* each of setup_solver, close_solver and solve_stagewise_optim.           *)
(*                                                                         *)
(* Numbers are numpy float64 in the source.  They are modelled bit for bit *)
(* as IEEE 754 binary64: [s, e, m] is s * M * 2^e with s the sign (0 for   *)
(* zero) and M a mantissa of 53 bits held in four limbs of 14 bits, m[1]   *)
(* the least significant.  Every operation rounds to nearest, ties to      *)
(* even.  The values of the model stay far from the subnormal and the      *)
(* overflow range, and the sign of a zero is never looked at; NaN is the   *)
(* string "nan" of a returned vector.                                      *)
(***************************************************************************)
EXTENDS Integers, Sequences, FiniteSets

(***************************************************************************)
(* Floating point arithmetic: IEEE 754 binary64, round to nearest even     *)
(***************************************************************************)
\* the bits of a limb, the base 2^14 of the limbs, the bits of a mantissa
LimbBits == 14

Base == 16384

MantBits == 53

Pow2 == << 1, 2, 4, 8, 16, 32, 64, 128, 256, 512, 1024, 2048, 4096, 8192,
           16384 >>

P2(k) == Pow2[k + 1]

IAbs(n) == IF n < 0 THEN -n ELSE n

\* A natural number is a tuple of limbs, the least significant first:
\* limb q of L (from 1), 0 outside it
Get(L, q) == IF q >= 1 /\ q <= Len(L) THEN L[q] ELSE 0

\* the LimbBits bits of L from bit o on (bit 0 is the least significant)
WindowAt(L, q, r) ==
    (Get(L, q + 1) \div P2(r)) + (Get(L, q + 2) % P2(r)) * P2(LimbBits - r)

Window(L, o) == WindowAt(L, o \div LimbBits, o % LimbBits)

\* the number of bits of a limb
BitLen(v) ==
    IF v < 128
    THEN IF v < 8
         THEN IF v < 2 THEN v ELSE IF v < 4 THEN 2 ELSE 3
         ELSE IF v < 32 THEN (IF v < 16 THEN 4 ELSE 5)
              ELSE IF v < 64 THEN 6 ELSE 7
    ELSE IF v < 2048
         THEN IF v < 512 THEN (IF v < 256 THEN 8 ELSE 9)
              ELSE IF v < 1024 THEN 10 ELSE 11
         ELSE IF v < 8192 THEN (IF v < 4096 THEN 12 ELSE 13) ELSE 14

RECURSIVE BitLengthFrom(_, _)
BitLengthFrom(L, j) ==
    IF j = 0 THEN 0
    ELSE IF L[j] # 0 THEN LimbBits * (j - 1) + BitLen(L[j])
    ELSE BitLengthFrom(L, j - 1)

\* the number of bits of L, 0 for zero
BitLength(L) == BitLengthFrom(L, Len(L))

RECURSIVE CarryFrom(_, _, _)
\* the limbs of the number whose "digits" P[j], P[j + 1], ... may be negative
\* or above the base; t is P[j] plus what is carried in
CarryFrom(P, j, t) ==
    IF j = Len(P)
    THEN (IF t \div Base = 0 THEN << t % Base >>
          ELSE << t % Base, t \div Base >>)
    ELSE << t % Base >> \o CarryFrom(P, j + 1, P[j + 1] + t \div Base)

Carry(P) == CarryFrom(P, 1, P[1])

RECURSIVE LowZero(_, _)
\* limbs 1..q of L are zero
LowZero(L, q) == q = 0 \/ (Get(L, q) = 0 /\ LowZero(L, q - 1))

\* the bits of L below bit o are zero
BitsBelowZero(L, o) ==
    /\ Get(L, o \div LimbBits + 1) % P2(o % LimbBits) = 0
    /\ LowZero(L, o \div LimbBits)

Zero == [s |-> 0, e |-> 0, m |-> << 0, 0, 0, 0 >>]

\* the mantissa m plus one unit in the last place
Successor(s, e, m) ==
    IF m[1] < Base - 1
    THEN [s |-> s, e |-> e, m |-> << m[1] + 1, m[2], m[3], m[4] >>]
    ELSE IF m[2] < Base - 1
    THEN [s |-> s, e |-> e, m |-> << 0, m[2] + 1, m[3], m[4] >>]
    ELSE IF m[3] < Base - 1
    THEN [s |-> s, e |-> e, m |-> << 0, 0, m[3] + 1, m[4] >>]
    ELSE IF m[4] < P2(MantBits - 3 * LimbBits) - 1
    THEN [s |-> s, e |-> e, m |-> << 0, 0, 0, m[4] + 1 >>]
    ELSE [s |-> s, e |-> e + 1,
          m |-> << 0, 0, 0, P2(MantBits - 3 * LimbBits - 1) >>]

\* the float nearest to s * L * 2^e, ties to even; k bits of L are dropped
Rounded(s, e, L, k, m) ==
    IF k <= 0 THEN [s |-> s, e |-> e + k, m |-> m]
    ELSE IF /\ Window(L, k - 1) % 2 = 1
            /\ (m[1] % 2 = 1 \/ ~BitsBelowZero(L, k - 1))
    THEN Successor(s, e + k, m)
    ELSE [s |-> s, e |-> e + k, m |-> m]

RoundTo(s, e, L, k) ==
    Rounded(s, e, L, k,
            << Window(L, k), Window(L, k + LimbBits),
               Window(L, k + 2 * LimbBits), Window(L, k + 3 * LimbBits) >>)

Round(s, e, L) == RoundTo(s, e, L, BitLength(L) - MantBits)

\* the float of an integer
Flt(n) ==
    IF n = 0 THEN Zero
    ELSE Round(IF n < 0 THEN -1 ELSE 1, 0,
               << IAbs(n) % Base, (IAbs(n) \div Base) % Base,
                  IAbs(n) \div (Base * Base) >>)

FNeg(x) == [x EXCEPT !.s = -x.s]

FAbs(x) == [x EXCEPT !.s = IAbs(x.s)]

\* |x| < |y|, for x and y not zero
MagLt(x, y) ==
    IF x.e # y.e THEN x.e < y.e
    ELSE IF x.m[4] # y.m[4] THEN x.m[4] < y.m[4]
    ELSE IF x.m[3] # y.m[3] THEN x.m[3] < y.m[3]
    ELSE IF x.m[2] # y.m[2] THEN x.m[2] < y.m[2]
    ELSE x.m[1] < y.m[1]

FLt(x, y) ==
    IF x.s # y.s THEN x.s < y.s
    ELSE IF x.s = 0 THEN FALSE
    ELSE IF x.s = 1 THEN MagLt(x, y)
    ELSE MagLt(y, x)

FLe(x, y) == ~FLt(y, x)

FGt(x, y) == FLt(y, x)

FGe(x, y) == ~FLt(x, y)

\* x + y for |x| >= |y| > 0, the exponents d apart
AddAligned(x, y, d) ==
    IF d > MantBits + 1 THEN x
    ELSE Round(x.s, y.e,
           Carry(<< Window(x.m, 0 - d) + x.s * y.s * y.m[1],
                    Window(x.m, LimbBits - d) + x.s * y.s * y.m[2],
                    Window(x.m, 2 * LimbBits - d) + x.s * y.s * y.m[3],
                    Window(x.m, 3 * LimbBits - d) + x.s * y.s * y.m[4],
                    Window(x.m, 4 * LimbBits - d),
                    Window(x.m, 5 * LimbBits - d),
                    Window(x.m, 6 * LimbBits - d),
                    Window(x.m, 7 * LimbBits - d) >>))

FAdd(x, y) ==
    IF x.s = 0 THEN y
    ELSE IF y.s = 0 THEN x
    ELSE IF x.s # y.s /\ x.e = y.e /\ x.m = y.m THEN Zero
    ELSE IF MagLt(x, y) THEN AddAligned(y, x, y.e - x.e)
    ELSE AddAligned(x, y, x.e - y.e)

FSub(x, y) == FAdd(x, FNeg(y))

\* the products of the limbs of a and b, by weight
LimbProducts(a, b) ==
    << a[1] * b[1],
       a[1] * b[2] + a[2] * b[1],
       a[1] * b[3] + a[2] * b[2] + a[3] * b[1],
       a[1] * b[4] + a[2] * b[3] + a[3] * b[2] + a[4] * b[1],
       a[2] * b[4] + a[3] * b[3] + a[4] * b[2],
       a[3] * b[4] + a[4] * b[3],
       a[4] * b[4] >>

FMul(x, y) ==
    IF x.s = 0 \/ y.s = 0 THEN Zero
    ELSE Round(x.s * y.s, x.e + y.e, Carry(LimbProducts(x.m, y.m)))

\* L, as a number of four limbs, at least M
NatGe(L, M) ==
    IF L[4] # M[4] THEN L[4] > M[4]
    ELSE IF L[3] # M[3] THEN L[3] > M[3]
    ELSE IF L[2] # M[2] THEN L[2] > M[2]
    ELSE L[1] >= M[1]

\* the limbs 1..4 of (the limbs P with carries done)
Limbs4(P) == << P[1], P[2], P[3], P[4] >>

RECURSIVE DigitFrom(_, _, _, _)
\* the largest q' <= q with q' * D <= R * Base, and R * Base - q' * D
DigitFrom(R, D, q, T) ==
    IF Get(T, 5) < R[4]
       \/ (Get(T, 5) = R[4]
           /\ NatGe(<< 0, R[1], R[2], R[3] >>, Limbs4(T)))
    THEN [q |-> q,
          R |-> Limbs4(Carry(<< 0 - T[1], R[1] - T[2], R[2] - T[3],
                                R[3] - T[4], R[4] - Get(T, 5) >>))]
    ELSE DigitFrom(R, D, q - 1,
                   Carry(<< (q - 1) * D[1], (q - 1) * D[2], (q - 1) * D[3],
                            (q - 1) * D[4] >>))

DigitTry(R, D, q) ==
    DigitFrom(R, D, q, Carry(<< q * D[1], q * D[2], q * D[3], q * D[4] >>))

\* one step of the long division of R * Base by D, for R < D, D[4] >= Base/2
Digit(R, D) ==
    IF (R[4] * Base + R[3]) \div D[4] > Base - 1
    THEN DigitTry(R, D, Base - 1)
    ELSE DigitTry(R, D, (R[4] * Base + R[3]) \div D[4])

RECURSIVE QuotientDigits(_, _, _, _)
\* n more digits of the long division; qs holds the digits found (the least
\* significant first), and a last limb tells whether a remainder is left
QuotientDigits(st, D, qs, n) ==
    IF n = 0
    THEN << IF st.R = << 0, 0, 0, 0 >> THEN 0 ELSE 1, st.q >> \o qs
    ELSE QuotientDigits(Digit(st.R, D), D, << st.q >> \o qs, n - 1)

\* the limbs of floor(N * Base^4 / D) * Base, plus 1 if the division is not
\* exact, for N < 2 * D
Quotient(N, D) ==
    IF NatGe(N, D)
    THEN QuotientDigits([q |-> 1,
                 R |-> Limbs4(Carry(<< N[1] - D[1], N[2] - D[2], N[3] - D[3],
                                       N[4] - D[4] >>))], D, << >>, 4)
    ELSE QuotientDigits([q |-> 0, R |-> N], D, << >>, 4)

\* the mantissa m with its top bit at the top of limb 4
Normalised(m) ==
    << Window(m, -3), Window(m, LimbBits - 3), Window(m, 2 * LimbBits - 3),
       Window(m, 3 * LimbBits - 3) >>

FDiv(x, y) ==
    IF x.s = 0 THEN Zero
    ELSE Round(x.s * y.s, x.e - y.e - 5 * LimbBits,
               Quotient(Normalised(x.m), Normalised(y.m)))

\* Python's max(a, b) and min(a, b).
FMax(a, b) == IF FGt(b, a) THEN b ELSE a

FMin(a, b) == IF FLt(b, a) THEN b ELSE a

Pow10 == << 1, 10, 100, 1000, 10000, 100000, 1000000, 10000000, 100000000,
            1000000000 >>

\* the float of the decimal literal n * 10^-k
Dec(n, k) == FDiv(Flt(n), Flt(Pow10[k + 1]))

\* f itself; makes TLC tabulate a function once instead of on every use
Eager(f) == IF f = f THEN f ELSE f

(***************************************************************************)
(* Constants of the source                                                 *)
(***************************************************************************)
\* Python's None, and a value that is present
None == << >>

Some(x) == << x >>

Val(o) == o[1]

\* toppra.constants.QPOASES_INFTY, 1e10
QPOASES_INFTY == FMul(Flt(100000), Flt(100000))

\* eps = 1e-8
eps == Dec(1, 8)

\* the regulariser 1e-5 of the column ratios
RatioReg == Dec(1, 5)

SUCCESSFUL_RETURN == "SUCCESSFUL_RETURN"

\* the initial value of the two recent-index counters
InitialRecentIndex == -2

(***************************************************************************)
(* The arguments of the constructor.  N + 1 gridpoints; the constraints    *)
(* hand over their precomputed parameter tuples (a, b, c, F, v, ubound,    *)
(* xbound), indexed by the stage.                                          *)
(***************************************************************************)
\* strictly increasing gridpoints
gridpoints == << 0, 1, 3 >>

\* SolverWrapper.__init__: self.N
N == Len(gridpoints) - 1

Stages == 0 .. N

path_discretization == [k \in Stages |-> Flt(gridpoints[k + 1])]

\* a canonical linear constraint with coefficients, F (a u + b x + c) <= v,
\* and a constraint that only declares bounds on u and on x
constraints ==
    << [identical |-> TRUE, extra_vars |-> 0,
        a |-> Some([k \in Stages |-> << Flt(1) >>]),
        b |-> Some([k \in Stages |-> << Flt(k) >>]),
        c |-> Some([k \in Stages |-> << Flt(0) >>]),
        F |-> Some(<< << Flt(1) >>, << Flt(-1) >> >>),
        v |-> Some(<< Flt(2), Flt(2) >>),
        ubound |-> None, xbound |-> None],
       [identical |-> TRUE, extra_vars |-> 0,
        a |-> None, b |-> None, c |-> None, F |-> None, v |-> None,
        ubound |-> Some([k \in Stages |-> << Flt(-3), Flt(3) >>]),
        xbound |-> Some([k \in Stages |-> << Flt(0), Flt(k + 1) >>])] >>

RECURSIVE SumTo(_, _)
\* sum of f[1..n], a sequence of integers
SumTo(f, n) == IF n = 0 THEN 0 ELSE f[n] + SumTo(f, n - 1)

\* SolverWrapper.__init__: self.deltas
deltas == [k \in 0 .. N - 1 |->
             FSub(path_discretization[k + 1], path_discretization[k])]

\* SolverWrapper.__init__: self.nV
nV == 2 + SumTo([j \in 1 .. Len(constraints) |-> constraints[j].extra_vars],
                Len(constraints))

\* the rows a constraint adds to the problem
RowsOf(con) ==
    IF con.a = None THEN 0
    ELSE IF con.identical THEN Len(Val(con.F)) ELSE Len(Val(con.F)[0])

\* hotqpOASESSolverWrapper.__init__: self.nC
nC == 2 + SumTo([j \in 1 .. Len(constraints) |-> RowsOf(constraints[j])],
                Len(constraints))

Rows == 0 .. nC - 1

(***************************************************************************)
(* The state of a wrapper object                                           *)
(***************************************************************************)
VARIABLES
    _disable_check,                  \* self._disable_check
    _A, _lA, _hA, _l, _h,            \* the qpOASES coefficient arrays
    solver_minimizing,               \* the two sessions
    solver_maximizing,
    solver_minimizing_recent_index,  \* the stage each session was last given
    solver_maximizing_recent_index,
    outcome,                         \* how each session's last solve ended
    last,                            \* the last call of solve_stagewise_optim
    ncalls                           \* calls of solve_stagewise_optim so far

vars == << _disable_check, _A, _lA, _hA, _l, _h, solver_minimizing,
           solver_maximizing, solver_minimizing_recent_index,
           solver_maximizing_recent_index, outcome, last, ncalls >>

\* an attribute setup_solver has not created yet, a closed session, and a
\* session as SQProblem(nV, nC) makes it: init has not been called on it
Unset == [obj |-> "unset", initialised |-> FALSE]

Closed == [obj |-> "None", initialised |-> FALSE]

SQProblem == [obj |-> "SQProblem", initialised |-> FALSE]

NoCall == [path |-> "none"]

\* lines 49-73: __init__
Init ==
    /\ _disable_check \in BOOLEAN
    /\ _A = [r \in Rows |-> << Zero, Zero >>]
    /\ _lA = [r \in Rows |-> FNeg(QPOASES_INFTY)]
    /\ _hA = [r \in Rows |-> QPOASES_INFTY]
    /\ _l = [c \in 0 .. 1 |-> FNeg(QPOASES_INFTY)]
    /\ _h = [c \in 0 .. 1 |-> QPOASES_INFTY]
    /\ solver_minimizing = Unset
    /\ solver_maximizing = Unset
    /\ solver_minimizing_recent_index = InitialRecentIndex
    /\ solver_maximizing_recent_index = InitialRecentIndex
    /\ outcome = [min |-> "none", max |-> "none"]
    /\ last = NoCall
    /\ ncalls = 0

\* lines 75-88
setup_solver ==
    /\ solver_minimizing' = SQProblem
    /\ solver_maximizing' = SQProblem
    /\ solver_minimizing_recent_index' = InitialRecentIndex
    /\ solver_maximizing_recent_index' = InitialRecentIndex
    /\ outcome' = [min |-> "none", max |-> "none"]
    /\ UNCHANGED << _disable_check, _A, _lA, _hA, _l, _h, last, ncalls >>

\* lines 90-92
close_solver ==
    /\ solver_minimizing' = Closed
    /\ solver_maximizing' = Closed
    /\ UNCHANGED << _disable_check, _A, _lA, _hA, _l, _h,
                    solver_minimizing_recent_index,
                    solver_maximizing_recent_index, outcome, last, ncalls >>

(***************************************************************************)
(* solve_stagewise_optim: the assembly of the stage problem, lines 102-150 *)
(***************************************************************************)
RECURSIVE DotTo(_, _, _)
\* numpy dot of two vectors u[1..n] and w[1..n]
DotTo(u, w, n) ==
    IF n = 0 THEN Zero ELSE FAdd(DotTo(u, w, n - 1), FMul(u[n], w[n]))

Dot(u, w) == DotTo(u, w, Len(u))

\* lines 102-108: l, h reset and tightened by x_min, x_max
CoreBounds(x_min, x_max) ==
    LET l0 == [c \in 0 .. 1 |-> FNeg(QPOASES_INFTY)]
        h0 == [c \in 0 .. 1 |-> QPOASES_INFTY]
    IN  [l |-> IF x_min # None
               THEN [l0 EXCEPT ![1] = FMax(l0[1], Val(x_min))] ELSE l0,
         h |-> IF x_max # None
               THEN [h0 EXCEPT ![1] = FMin(h0[1], Val(x_max))] ELSE h0]

\* lines 110-125: the two leading rows, written only when i < N
NextStateRows(i, x_next_min, x_next_max) ==
    IF i < N
    THEN LET delta == deltas[i]
             row0  == IF x_next_min # None
                      THEN << FMul(Flt(-2), delta), Flt(-1) >>
                      ELSE << Zero, Zero >>
             hA0   == IF x_next_min # None
                      THEN FNeg(Val(x_next_min)) ELSE QPOASES_INFTY
             row1  == IF x_next_max # None
                      THEN << FMul(Flt(2), delta), Flt(1) >>
                      ELSE << Zero, Zero >>
             hA1   == IF x_next_max # None
                      THEN Val(x_next_max) ELSE QPOASES_INFTY
         IN  [A  |-> [_A EXCEPT ![0] = row0, ![1] = row1],
              hA |-> [_hA EXCEPT ![0] = hA0, ![1] = hA1],
              lA |-> [_lA EXCEPT ![0] = FNeg(QPOASES_INFTY),
                                 ![1] = FNeg(QPOASES_INFTY)]]
    ELSE [A |-> _A, hA |-> _hA, lA |-> _lA]

\* lines 130-143: the rows of constraint con, written from row cur on
ConstraintRows(con, i, st) ==
    LET F   == IF con.identical THEN Val(con.F) ELSE Val(con.F)[i]
        v   == IF con.identical THEN Val(con.v) ELSE Val(con.v)[i]
        nC_ == Len(F)
        in(r) == r >= st.cur /\ r < st.cur + nC_
    IN  [st EXCEPT
           !.A  = [r \in Rows |->
                     IF in(r)
                     THEN << Dot(F[r - st.cur + 1], Val(con.a)[i]),
                             Dot(F[r - st.cur + 1], Val(con.b)[i]) >>
                     ELSE st.A[r]],
           !.hA = [r \in Rows |->
                     IF in(r)
                     THEN FSub(v[r - st.cur + 1],
                               Dot(F[r - st.cur + 1], Val(con.c)[i]))
                     ELSE st.hA[r]],
           !.lA = [r \in Rows |->
                     IF in(r) THEN FNeg(QPOASES_INFTY) ELSE st.lA[r]],
           !.cur = st.cur + nC_]

\* lines 144-146: a declared bound on u tightens l[0] and h[0]
UBound(con, i, st) ==
    IF con.ubound # None
    THEN [st EXCEPT !.l[0] = FMax(st.l[0], Val(con.ubound)[i][1]),
                    !.h[0] = FMin(st.h[0], Val(con.ubound)[i][2])]
    ELSE st

\* as XBound, with the two columns of xbound taken for each other
XBoundSwapped(con, i, st) ==
    IF con.xbound # None
    THEN [st EXCEPT !.l[1] = FMax(st.l[1], Val(con.xbound)[i][2]),
                    !.h[1] = FMin(st.h[1], Val(con.xbound)[i][1])]
    ELSE st

\* lines 148-150: a declared bound on x tightens l[1] and h[1]
XBound(con, i, st) ==
    IF con.xbound # None
    THEN [st EXCEPT !.l[1] = FMax(st.l[1], Val(con.xbound)[i][1]),
                    !.h[1] = FMin(st.h[1], Val(con.xbound)[i][2])]
    ELSE st

\* lines 128-150: one pass of the loop, for constraint con
ConstraintStep(con, i, st) ==
    XBound(con, i, UBound(con, i,
        IF con.a # None THEN ConstraintRows(con, i, st) ELSE st))

RECURSIVE ConstraintLoop(_, _, _)
\* lines 127-150: for j in range(len(self.constraints))
ConstraintLoop(j, i, st) ==
    IF j > Len(constraints) THEN st
    ELSE ConstraintLoop(j + 1, i, ConstraintStep(constraints[j], i, st))

\* lines 102-126: the arrays when the loop starts, cur_index = 2
BeforeLoop(cb, ns) ==
    [A |-> ns.A, lA |-> ns.lA, hA |-> ns.hA, l |-> cb.l, h |-> cb.h,
     cur |-> 2]

\* the five arrays
Arrays(st) ==
    [A |-> Eager(st.A), lA |-> Eager(st.lA), hA |-> Eager(st.hA),
     l |-> Eager(st.l), h |-> Eager(st.h)]

\* lines 102-150: the problem as assembled, before any scaling
Assemble(i, x_min, x_max, x_next_min, x_next_max) ==
    Arrays(ConstraintLoop(1, i,
             BeforeLoop(CoreBounds(x_min, x_max),
                        NextStateRows(i, x_next_min, x_next_max))))

(***************************************************************************)
(* solve_stagewise_optim: line search, scaling and the feasibility check   *)
(***************************************************************************)
Vec(a, b) == Eager([c \in 0 .. 1 |-> IF c = 0 THEN a ELSE b])

RECURSIVE LineSearchFrom(_, _, _, _)
\* lines 155-161: for i in range(self._A.shape[0]), from row r on
LineSearchFrom(p, x_min, r, acc) ==
    IF r > nC - 1 THEN acc
    ELSE LET bound == FDiv(FSub(p.hA[r], FMul(p.A[r][2], x_min)), p.A[r][1])
             nxt == IF FGt(p.A[r][1], Zero)
                    THEN [acc EXCEPT !.u_max = FMin(acc.u_max, bound)]
                    ELSE IF FLt(p.A[r][1], Zero)
                    THEN [acc EXCEPT !.u_min = FMax(acc.u_min, bound)]
                    ELSE acc
         IN  LineSearchFrom(p, x_min, r + 1, nxt)

\* lines 155-161
LineSearch(p, x_min) ==
    LineSearchFrom(p, x_min, 0,
                   [u_min |-> FNeg(QPOASES_INFTY), u_max |-> QPOASES_INFTY])

\* lines 162-165: the pair the line search returns
LineSearchResult(g, x_min, delta, ls) ==
    IF FLt(g[0], Zero)
    THEN Vec(ls.u_max, FAdd(x_min, FMul(FMul(Flt(2), ls.u_max), delta)))
    ELSE Vec(ls.u_min, FAdd(x_min, FMul(FMul(Flt(2), ls.u_min), delta)))

RECURSIVE SumAbsCol(_, _, _)
\* np.sum(np.abs(A[2:, c])), the rows 2..r added one after the other
SumAbsCol(A, c, r) ==
    IF r < 2 THEN Zero
    ELSE FAdd(SumAbsCol(A, c, r - 1), FAbs(A[r][c + 1]))

\* lines 180-183: variable_scales
VariableScales(A) ==
    Vec(FDiv(Flt(1), FAdd(SumAbsCol(A, 0, nC - 1), RatioReg)),
        FDiv(Flt(1), FAdd(SumAbsCol(A, 1, nC - 1), RatioReg)))

\* line 188: A.dot(variable_scales_mat)
RatioScaled(A, vs) ==
    Eager([r \in Rows |-> << FMul(A[r][1], vs[0]), FMul(A[r][2], vs[1]) >>])

\* lines 195-196: the diagonal of row_scaling_mat
RowScaling(A1) ==
    Eager([r \in Rows |->
             FDiv(Flt(1),
                  FAdd(FAdd(FAbs(A1[r][1]), FAbs(A1[r][2])), Flt(1)))])

\* lines 189-190 and 197-199
RowScaled(p, vs, A1, rsc) ==
    [A  |-> Eager([r \in Rows |-> << FMul(rsc[r], A1[r][1]),
                                     FMul(rsc[r], A1[r][2]) >>]),
     lA |-> Eager([r \in Rows |-> FMul(rsc[r], p.lA[r])]),
     hA |-> Eager([r \in Rows |-> FMul(rsc[r], p.hA[r])]),
     l  |-> Eager([c \in 0 .. 1 |-> FDiv(p.l[c], vs[c])]),
     h  |-> Eager([c \in 0 .. 1 |-> FDiv(p.h[c], vs[c])])]

ScaleRows(p, vs, A1) == RowScaled(p, vs, A1, RowScaling(A1))

\* lines 187-199: ratio scaling, then rows scaling
Scale(p, vs) == ScaleRows(p, vs, RatioScaled(p.A, vs))

\* line 191
ScaleG(g, vs) == Eager([c \in 0 .. 1 |-> FMul(g[c], vs[c])])

\* lines 167-168 and 192: H, or zeros, scaled on both sides
ScaleH(H, vs) ==
    LET H0 == IF H = None THEN << << Zero, Zero >>, << Zero, Zero >> >>
              ELSE Val(H)
    IN  [r \in 1 .. 2 |-> [c \in 1 .. 2 |->
           FMul(FMul(vs[r - 1], H0[r][c]), vs[c - 1])]]

\* lines 237-239: the check of the solution against the (scaled) arrays
Feasible(p, var) ==
    LET Av == Eager([r \in Rows |-> FAdd(FMul(p.A[r][1], var[0]),
                                         FMul(p.A[r][2], var[1]))])
    IN  /\ \A c \in 0 .. 1 : FLe(p.l[c], FAdd(var[c], eps))
        /\ \A c \in 0 .. 1 : FLe(var[c], FAdd(p.h[c], eps))
        /\ \A r \in Rows : FLe(Av[r], FAdd(p.hA[r], eps))
        /\ \A r \in Rows : FGe(Av[r], FSub(p.lA[r], eps))

\* lines 234 and 247: var * variable_scales
Unscale(var, vs) == [c \in 0 .. 1 |-> FMul(var[c], vs[c])]

\* as ChooseMinimizing, with g[1] = 0 sent to solver_minimizing too
ChooseMinimizingOnZero(g) == FGe(g[1], Zero)

\* lines 202, 224: g[1] > 0 chooses solver_minimizing
ChooseMinimizing(g) == FGt(g[1], Zero)

\* as ColdStart, with a hotstart two stages away as well
ColdStartBeyondTwo(recent_index, i) == IAbs(recent_index - i) > 2

\* lines 203, 213: init when the stage is not next to the recent one
ColdStart(recent_index, i) == IAbs(recent_index - i) > 1

\* what the backend may answer: a status and a primal solution
Primals == { Vec(Zero, Zero), Vec(Flt(1), Flt(1)) }

BackendAnswers ==
    { [status |-> "RET_INIT_FAILED", primal |-> Vec(Zero, Zero)] }
    \cup { [status |-> SUCCESSFUL_RETURN, primal |-> v] : v \in Primals }

\* as BackendReturn, with the result of the feasibility check ignored
BackendReturnUnchecked(status, success, var, vs) ==
    IF status = SUCCESSFUL_RETURN
    THEN [kind |-> "value", val |-> Unscale(var, vs)]
    ELSE [kind |-> "nan", val |-> [c \in 0 .. nV - 1 |-> "nan"]]

\* lines 223-263: what the call returns after the backend has answered
BackendReturn(status, success, var, vs) ==
    IF status = SUCCESSFUL_RETURN /\ (_disable_check \/ success)
    THEN [kind |-> "value", val |-> Unscale(var, vs)]
    ELSE [kind |-> "nan", val |-> [c \in 0 .. nV - 1 |-> "nan"]]

(***************************************************************************)
(* solve_stagewise_optim, lines 94-263.  The backend (qpOASES) is opaque:  *)
(* its answer to init / hotstart is the pair out = (status, primal).       *)
(***************************************************************************)
\* calls of solve_stagewise_optim with freely chosen arguments in a run
MaxCalls == 2

\* the record of a call: its arguments, the problem as assembled, the path
\* taken and what came back
CallRecord(i, H, g, x_min, x_max, x_next_min, x_next_max, asm) ==
    [i |-> i, H |-> H, g |-> g, x_min |-> x_min, x_max |-> x_max,
     x_next_min |-> x_next_min, x_next_max |-> x_next_max, asm |-> asm,
     path |-> "raise", error |-> "none", session |-> "none",
     mode |-> "none", prev_index |-> InitialRecentIndex, status |-> "none",
     var |-> Vec(Zero, Zero), checked |-> FALSE, success |-> FALSE,
     scales |-> Vec(Zero, Zero), g_scaled |-> g,
     H_scaled |-> ScaleH(None, Vec(Zero, Zero)),
     ret |-> [kind |-> "raise", val |-> << >>]]

\* the arrays become p; the sessions and their counters are not touched
Store(p) ==
    /\ _A' = p.A /\ _lA' = p.lA /\ _hA' = p.hA /\ _l' = p.l /\ _h' = p.h

SessionsUntouched ==
    UNCHANGED << solver_minimizing, solver_maximizing,
                 solver_minimizing_recent_index,
                 solver_maximizing_recent_index, outcome >>

\* how the session's solve ended, for the wrapper
HowEnded(status, ret) ==
    IF status # SUCCESSFUL_RETURN THEN "failed"
    ELSE IF ret.kind = "nan" THEN "rejected" ELSE "solved"

\* lines 201-263, once the backend has answered and the answer is judged
Answered(i, out, rec, useMin, recent, checked, success, ret) ==
    /\ last' = [rec EXCEPT
                  !.path = "backend",
                  !.session = IF useMin THEN "min" ELSE "max",
                  !.mode = IF ColdStart(recent, i) THEN "init" ELSE "hotstart",
                  !.prev_index = recent,
                  !.status = out.status,
                  !.var = out.primal,
                  !.checked = checked,
                  !.success = success,
                  !.ret = ret]
    /\ IF useMin
       THEN /\ solver_minimizing' =
                 [solver_minimizing EXCEPT
                    !.initialised = @ \/ ColdStart(recent, i)]
            /\ solver_minimizing_recent_index' = i
            /\ outcome' = [outcome EXCEPT !.min = HowEnded(out.status, ret)]
            /\ UNCHANGED << solver_maximizing, solver_maximizing_recent_index >>
       ELSE /\ solver_maximizing' =
                 [solver_maximizing EXCEPT
                    !.initialised = @ \/ ColdStart(recent, i)]
            /\ solver_maximizing_recent_index' = i
            /\ outcome' = [outcome EXCEPT !.max = HowEnded(out.status, ret)]
            /\ UNCHANGED << solver_minimizing, solver_minimizing_recent_index >>

\* lines 223-247: the feasibility check runs on success unless disabled
Judge(i, out, rec, useMin, recent, checked, success) ==
    Answered(i, out, rec, useMin, recent, checked, success,
             BackendReturn(out.status, success, out.primal, rec.scales))

\* lines 201-221: the session chosen by the sign of the scaled g[1] is given
\* the problem, by init or by hotstart, and answers out
Dispatch(i, rec, sc, useMin) ==
    \E out \in BackendAnswers :
       Judge(i, out, rec, useMin,
             IF useMin THEN solver_minimizing_recent_index
             ELSE solver_maximizing_recent_index,
             out.status = SUCCESSFUL_RETURN /\ ~_disable_check,
             /\ out.status = SUCCESSFUL_RETURN
             /\ ~_disable_check
             /\ Feasible(sc, out.primal))

\* lines 187-199: the arrays are replaced by the scaled ones
Scaled(i, rec, sc) ==
    /\ Store(sc)
    /\ Dispatch(i, rec, sc, ChooseMinimizing(rec.g_scaled))

\* lines 167-199
ScaleProblem(i, H, g, rec, vs) ==
    Scaled(i,
           [rec EXCEPT !.scales = vs, !.g_scaled = ScaleG(g, vs),
                       !.H_scaled = ScaleH(H, vs)],
           Scale(rec.asm, vs))

\* lines 152-165: the line search; delta is bound only if i < N
LineSearchPath(i, g, x_min, rec) ==
    /\ Store(rec.asm)
    /\ SessionsUntouched
    /\ last' =
         IF i < N
         THEN [rec EXCEPT
                 !.path = "line_search",
                 !.ret = [kind |-> "value",
                          val |-> LineSearchResult(g, Val(x_min), deltas[i],
                                    LineSearch(rec.asm, Val(x_min)))]]
         ELSE [rec EXCEPT !.error = "UnboundLocalError"]

\* lines 152-263, with the problem assembled (rec.asm)
Assembled(i, H, g, x_min, x_max, rec) ==
    IF x_min = None \/ x_max = None
    THEN \* line 153: abs(x_min - x_max) on None raises TypeError
         /\ Store(rec.asm)
         /\ SessionsUntouched
         /\ last' = [rec EXCEPT !.error = "TypeError"]
    ELSE IF /\ FLt(FAbs(FSub(Val(x_min), Val(x_max))), eps)
            /\ H = None
            /\ nV = 2
    THEN LineSearchPath(i, g, x_min, rec)
    ELSE ScaleProblem(i, H, g, rec, VariableScales(rec.asm.A))

\* lines 94-263.  SolverWrapper's contract (solverwrapper.py, lines 15-20):
\* the calls come after setup_solver and before close_solver.
solve_stagewise_optim(i, H, g, x_min, x_max, x_next_min, x_next_max) ==
    /\ solver_minimizing.obj = "SQProblem"
    /\ ncalls' = ncalls + 1
    /\ UNCHANGED _disable_check
    /\ Assembled(i, H, g, x_min, x_max,
                 CallRecord(i, H, g, x_min, x_max, x_next_min, x_next_max,
                            Assemble(i, x_min, x_max, x_next_min,
                                     x_next_max)))

(***************************************************************************)
(* The calls made on the object                                            *)
(***************************************************************************)
\* the linear terms: g[0] < 0 and g[1] > 0, g[0] > 0 and g[1] = 0
LinearTerms == { Vec(Flt(-1), Flt(1)), Vec(Flt(1), Flt(0)) }

\* the linear programs of the reachability analysis pass no Hessian
Hessians == { None }

LowerBounds == { None, Some(Flt(0)), Some(Flt(2)) }

UpperBounds == { None, Some(Flt(2)) }

NextLowerBounds == { None, Some(Flt(0)) }

NextUpperBounds == { None, Some(Flt(1)) }

\* the caller makes its last call once more, with the same arguments
Repeat ==
    /\ last # NoCall
    /\ solve_stagewise_optim(last.i, last.H, last.g, last.x_min, last.x_max,
                             last.x_next_min, last.x_next_max)

\* MaxCalls calls with any arguments, and one more that repeats the last
Next ==
    \/ setup_solver
    \/ close_solver
    \/ /\ ncalls < MaxCalls
       /\ \E i \in Stages, H \in Hessians, g \in LinearTerms,
             x_min \in LowerBounds, x_max \in UpperBounds,
             x_next_min \in NextLowerBounds, x_next_max \in NextUpperBounds :
            solve_stagewise_optim(i, H, g, x_min, x_max, x_next_min,
                                  x_next_max)
    \/ /\ ncalls <= MaxCalls
       /\ Repeat

Spec == Init /\ [][Next]_vars

(***************************************************************************)
(* What the specification says of the wrapper                              *)
(***************************************************************************)
\* the arrays of the object, as the last call left them
Buffers == [A |-> _A, lA |-> _lA, hA |-> _hA, l |-> _l, h |-> _h]

Called == last # NoCall

\* a call of solve_stagewise_optim has just been made
Calling == ncalls' = ncalls + 1

IsAllNaN(ret) ==
    /\ ret.kind = "nan"
    /\ DOMAIN ret.val = 0 .. nV - 1
    /\ \A c \in 0 .. nV - 1 : ret.val[c] = "nan"

\* x_min and x_max present and equal within eps, H is None, nV = 2
DegenerateTrigger(r) ==
    /\ r.x_min # None
    /\ r.x_max # None
    /\ FLt(FAbs(FSub(Val(r.x_min), Val(r.x_max))), eps)
    /\ r.H = None
    /\ nV = 2

\* C1: with checking enabled, a returned vector that is not all-NaN
\* satisfies, within eps, every constraint assembled for the call (l, h,
\* lA, hA, A before scaling), whichever path returned it.
ReturnedVectorIsFeasible ==
    (Called /\ ~_disable_check /\ last.ret.kind = "value")
        => Feasible(last.asm, last.ret.val)

\* C2: a dispatched solve whose backend status is not success, or whose
\* solution fails the re-check while checking is enabled, returns nV NaNs;
\* a solution that fails the re-check is returned only with disable_check.
FailureReturnsAllNaN ==
    last.path = "backend" =>
        /\ last.status # SUCCESSFUL_RETURN => IsAllNaN(last.ret)
        /\ (/\ last.status = SUCCESSFUL_RETURN
            /\ ~_disable_check
            /\ ~Feasible(Buffers, last.var)) => IsAllNaN(last.ret)
        /\ (last.ret.kind = "value" /\ ~Feasible(Buffers, last.var))
              => _disable_check
        /\ last.ret.kind \in { "value", "nan" }

\* a backend solution was rejected by the re-check, and NaNs came back
RejectedSolution ==
    /\ last.path = "backend"
    /\ last.status = SUCCESSFUL_RETURN
    /\ ~_disable_check
    /\ ~Feasible(Buffers, last.var)
    /\ IsAllNaN(last.ret)

\* C3: a call at any stage 0..N, with any of the four bounds absent, ends
\* by returning a vector (a solution or NaNs), never by raising.
NeverRaises ==
    Called => /\ last.error = "none"
              /\ last.ret.kind \in { "value", "nan" }

SameArguments(r1, r2) ==
    /\ r1.i = r2.i /\ r1.H = r2.H /\ r1.g = r2.g
    /\ r1.x_min = r2.x_min /\ r1.x_max = r2.x_max
    /\ r1.x_next_min = r2.x_next_min /\ r1.x_next_max = r2.x_next_max

\* C4: a call repeated with the arguments of the call before it assembles
\* the same A, l, h, lA, hA (in original units) as that call did.
RepeatedCallAssemblesTheSame ==
    [][(Calling /\ Called /\ SameArguments(last, last'))
          => last'.asm = last.asm]_vars

\* C5: when the degenerate trigger holds the call returns (u*, x_min), with
\* u* the tightest upper bound on u (g[0] < 0) or the tightest lower bound
\* (otherwise) that the rows with a nonzero u coefficient imply at x = x_min.
DegenerateReturnsFixedState ==
    (Called /\ DegenerateTrigger(last)) =>
        /\ last.ret.kind = "value"
        /\ last.ret.val[1] = Val(last.x_min)
        /\ last.ret.val[0] =
             IF FLt(last.g[0], Zero)
             THEN LineSearch(last.asm, Val(last.x_min)).u_max
             ELSE LineSearch(last.asm, Val(last.x_min)).u_min

\* the declared bounds on u (c = 0) and on x (c = 1) at stage i, as pairs
DeclaredBounds(c, i) ==
    { IF c = 0 THEN Val(constraints[j].ubound)[i]
      ELSE Val(constraints[j].xbound)[i] :
        j \in { k \in 1 .. Len(constraints) :
                  IF c = 0 THEN constraints[k].ubound # None
                  ELSE constraints[k].xbound # None } }

\* x_min <= x_max, x_next_min <= x_next_max, declared lower <= upper
ConsistentInputs(r) ==
    /\ (r.x_min # None /\ r.x_max # None) => FLe(Val(r.x_min), Val(r.x_max))
    /\ (r.x_next_min # None /\ r.x_next_max # None)
          => FLe(Val(r.x_next_min), Val(r.x_next_max))
    /\ \A c \in 0 .. 1 : \A bd \in DeclaredBounds(c, r.i) : FLe(bd[1], bd[2])

\* the lower and the upper bounds that apply to core variable c
LowersOn(c, r) ==
    { bd[1] : bd \in DeclaredBounds(c, r.i) }
    \cup (IF c = 1 /\ r.x_min # None THEN { Val(r.x_min) } ELSE {})

UppersOn(c, r) ==
    { bd[2] : bd \in DeclaredBounds(c, r.i) }
    \cup (IF c = 1 /\ r.x_max # None THEN { Val(r.x_max) } ELSE {})

\* every lower bound on a variable is below every upper bound on it
CompatibleBounds(r) ==
    \A c \in 0 .. 1 : \A lo \in LowersOn(c, r), hi \in UppersOn(c, r) :
        FLe(lo, hi)

BoxOrdered(p) == \A c \in 0 .. 1 : FLe(p.l[c], p.h[c])

RowsOrdered(p) == \A r \in Rows : FLe(p.lA[r], p.hA[r])

\* C6, as stated: consistent inputs give l <= h and lA <= hA before scaling.
ConsistentInputsGiveOrderedBounds ==
    (Called /\ ConsistentInputs(last))
        => (BoxOrdered(last.asm) /\ RowsOrdered(last.asm))

\* C6, amended: consistent inputs give lA <= hA on every row; they give
\* l <= h when, in addition, every lower bound that applies to a core
\* variable (x_min, declared lower bounds) is below every upper bound that
\* applies to it (x_max, declared upper bounds).
CompatibleInputsGiveOrderedBounds ==
    /\ (Called /\ ConsistentInputs(last)) => RowsOrdered(last.asm)
    /\ (Called /\ ConsistentInputs(last) /\ CompatibleBounds(last))
          => BoxOrdered(last.asm)

\* consistent and compatible bounds, assembled at the final stage after an
\* earlier call
OrderedAfterEarlierCalls ==
    /\ Called
    /\ ncalls >= 2
    /\ last.i = N
    /\ last.x_min # None /\ last.x_max # None
    /\ ConsistentInputs(last) /\ CompatibleBounds(last)
    /\ last.asm.A[0] # << Zero, Zero >>

\* C7: a dispatched solve is a hotstart iff its session was dispatched a
\* stage since the last setup_solver and the stage is within 1 of the stage
\* it was last given; otherwise it is an init.  A hotstart is never made on
\* a session on which init was never called.
WarmStartRule ==
    [][(Calling /\ last'.path = "backend") =>
         LET useMin == last'.session = "min"
             recent == IF useMin THEN solver_minimizing_recent_index
                       ELSE solver_maximizing_recent_index
             ended  == IF useMin THEN outcome.min ELSE outcome.max
             sess   == IF useMin THEN solver_minimizing
                       ELSE solver_maximizing
             warm   == ended # "none" /\ IAbs(last'.i - recent) <= 1
         IN  /\ last'.mode = "hotstart" <=> warm
             /\ last'.mode = "init" <=> ~warm
             /\ last'.mode = "hotstart" => sess.initialised]_vars

\* a hotstart at the stage next to the one the session was last given
WarmStarted ==
    /\ last.path = "backend"
    /\ last.mode = "hotstart"
    /\ IAbs(last.i - last.prev_index) = 1

\* C8: a call touches at most one session: g[1] > 0 the minimizing one and
\* its counter, g[1] <= 0 the maximizing one and its counter; the line
\* search touches neither.  Scaling g does not change the selection.
OneSessionPerCall ==
    [][Calling =>
         /\ (last'.path = "backend" /\ FGt(last'.g[1], Zero)) =>
               /\ last'.session = "min"
               /\ solver_minimizing_recent_index' = last'.i
               /\ UNCHANGED << solver_maximizing,
                               solver_maximizing_recent_index >>
               /\ outcome'.max = outcome.max
         /\ (last'.path = "backend" /\ ~FGt(last'.g[1], Zero)) =>
               /\ last'.session = "max"
               /\ solver_maximizing_recent_index' = last'.i
               /\ UNCHANGED << solver_minimizing,
                               solver_minimizing_recent_index >>
               /\ outcome'.min = outcome.min
         /\ last'.path = "line_search" =>
               UNCHANGED << solver_minimizing, solver_maximizing,
                            solver_minimizing_recent_index,
                            solver_maximizing_recent_index, outcome >>
         /\ last'.path = "backend" =>
               (FGt(last'.g[1], Zero) <=> FGt(last'.g_scaled[1], Zero))]_vars

\* the maximizing session was called with g[1] = 0 while the minimizing
\* session keeps the stage of an earlier call
OtherSessionKept ==
    /\ last.path = "backend"
    /\ last.session = "max"
    /\ last.g[1] = Zero
    /\ solver_maximizing_recent_index = last.i
    /\ solver_minimizing_recent_index \in Stages
    /\ solver_minimizing_recent_index # last.i

\* C9: the two leading rows of an assembled problem come from the current
\* call only: a present bound gives (-2 delta[i], -1) with upper bound
\* -x_next_min, and (2 delta[i], 1) with upper bound x_next_max; an absent
\* bound gives a zero row with upper bound +INF; nothing is left over.
LeadingRowsFromCurrentCall ==
    Called =>
        /\ (last.x_next_min # None /\ last.i < N) =>
              /\ last.asm.A[0] = << FMul(Flt(-2), deltas[last.i]), Flt(-1) >>
              /\ last.asm.hA[0] = FNeg(Val(last.x_next_min))
        /\ (last.x_next_max # None /\ last.i < N) =>
              /\ last.asm.A[1] = << FMul(Flt(2), deltas[last.i]), Flt(1) >>
              /\ last.asm.hA[1] = Val(last.x_next_max)
        /\ last.x_next_min = None =>
              /\ last.asm.A[0] = << Zero, Zero >>
              /\ last.asm.hA[0] = QPOASES_INFTY
        /\ last.x_next_max = None =>
              /\ last.asm.A[1] = << Zero, Zero >>
              /\ last.asm.hA[1] = QPOASES_INFTY

\* C10: a session is never given a hotstart when its preceding backend
\* call failed or had its solution rejected by the feasibility check.
NoWarmStartAfterFailure ==
    [][(Calling /\ last'.path = "backend" /\ last'.mode = "hotstart") =>
         (IF last'.session = "min" THEN outcome.min ELSE outcome.max)
            \notin { "failed", "rejected" }]_vars

====
